---- MODULE Spec2Model ----
(***************************************************************************)
(* Record/replay of external command invocations (azwebapps/cmd.py):       *)
(* CmdRun (Invocation Record), Recorder (Session Log), Player (Replay      *)
(* Cursor) and Cmd (Command Executor).                                     *)
(*                                                                         *)
(* Python values are modelled as follows.  An optional value is a sequence *)
(* of length at most one: None is <<>> and a present value v is <<v>>.     *)
(* A list is a sequence, a dict is a function on its keys, an object is a  *)
(* record of its attributes.  A raised exception is a record of its type   *)
(* and of the parts of its formatted message.  The external process run by *)
(* subprocess.run is a choice of (returncode, stdout, stderr) from         *)
(* ProcResults; commands the operating system cannot launch are outside    *)
(* the model.                                                              *)
(***************************************************************************)
EXTENDS Integers, Sequences, FiniteSets, TLC

VARIABLES
    file,       \* the file at Recorder.file: None, or the JSON document it holds
    writable,   \* whether the file at Recorder.file can be opened for writing
    recorder,   \* the Recorder object (made = FALSE before construction)
    player,     \* the Player object (made = FALSE before construction)
    executor,   \* the Cmd object (made = FALSE before construction)
    loaded,     \* what parse_recorder_file last returned: None or <<[cmdLine, records]>>
    last,       \* the last call: operation, argument, exception raised, value returned
    diag,       \* the lines print_err wrote during the last call
    session,    \* history: what the caller handed to the Recorder since its construction
    source,     \* history: `session` as it was when the Player was constructed
    consumed,   \* history: how many calls of Player.get have returned a record
    replayed    \* history: whether the commands issued so far through a replaying Cmd
                \* are, in order, the first n commands `source` was recorded from

vars == <<file, writable, recorder, player, executor, loaded, last, diag, session, source,
          consumed, replayed>>

----------------------------------------------------------------------------
(* Bounds and input sets *)

MaxRecords == 2      \* records appended to one Recorder

Cmds == {"a", "b"}
RCs == {0, 2}
Outs == {"", "out"}
Errs == {"", "err"}
CmdLines == {<<"azwebapps">>, <<"azwebapps", "-r">>}

\* What an external process can produce: returncode and decoded stdout, stderr
\* (a process that reports on one stream, with either exit code).
ProcResults == { p \in [rc : RCs, out : Outs, err : Errs] : (p.out = "") # (p.err = "") }

None == <<>>
Some(x) == <<x>>

----------------------------------------------------------------------------
(* Exceptions *)

NoExc == [type |-> "", msg |-> <<>>]
ValueError(m) == [type |-> "ValueError", msg |-> m]
IndexError == [type |-> "IndexError", msg |-> <<"list index out of range">>]
FileNotFoundError == [type |-> "FileNotFoundError", msg |-> <<>>]
OSError == [type |-> "OSError", msg |-> <<"Permission denied">>]
AttributeError == [type |-> "AttributeError", msg |-> <<"run">>]
JSONDecodeError == [type |-> "JSONDecodeError", msg |-> <<>>]

----------------------------------------------------------------------------
(* The diagnostic stream *)

\* print_err(line): the lines it writes to the diagnostic stream
print_err(line) == <<line>>

----------------------------------------------------------------------------
(* CmdRun *)

\* `x or ""` for an optional text x
OrEmpty(x) == IF x = None THEN "" ELSE x[1]

\* A faulty CmdRun.__init__: `if not rc` in place of `if rc is None`
CmdRun_falsy(cmd, rc, out, err) ==
    IF rc = None \/ rc[1] = 0
    THEN { [obj |-> [cmd |-> cmd, rc |-> p.rc, out |-> p.out, err |-> p.err],
            ran |-> 1,
            lines |-> print_err(<<"run: ", cmd>>)] : p \in ProcResults }
    ELSE { [obj |-> [cmd |-> cmd, rc |-> rc[1], out |-> OrEmpty(out), err |-> OrEmpty(err)],
            ran |-> 0,
            lines |-> <<>>] }

\* CmdRun.__init__(cmd, rc, out, err) with optional rc, out, err: the set of
\* outcomes, each the object built, the number of processes run and the
\* lines written to the diagnostic stream.
CmdRun(cmd, rc, out, err) ==
    IF rc = None
    THEN { [obj |-> [cmd |-> cmd, rc |-> p.rc, out |-> p.out, err |-> p.err],
            ran |-> 1,
            lines |-> print_err(<<"run: ", cmd>>)] : p \in ProcResults }
    ELSE { [obj |-> [cmd |-> cmd, rc |-> rc[1], out |-> OrEmpty(out), err |-> OrEmpty(err)],
            ran |-> 0,
            lines |-> <<>>] }

\* A faulty to_list: stderr left out
to_list_short(self) == <<self.cmd, self.rc, self.out>>

\* CmdRun.to_list
to_list(self) == <<self.cmd, self.rc, self.out, self.err>>

\* the i-th positional argument of f(*ll), None when ll is shorter
Star(ll, i) == IF i <= Len(ll) THEN Some(ll[i]) ELSE None

\* A faulty from_list: stdout and stderr taken in the wrong order
from_list_swapped(ll) == CmdRun(ll[1], Star(ll, 2), Star(ll, 4), Star(ll, 3))

\* CmdRun.from_list
from_list(ll) == CmdRun(ll[1], Star(ll, 2), Star(ll, 3), Star(ll, 4))

----------------------------------------------------------------------------
(* Player *)

\* list(map(CmdRun.from_list, ll)): the set of outcomes, each the records
\* built, the number of processes run and the lines written.
RECURSIVE MapFromList(_)
MapFromList(ll) ==
    IF ll = <<>>
    THEN { [records |-> <<>>, ran |-> 0, lines |-> <<>>] }
    ELSE { [records |-> <<h.obj>> \o t.records,
            ran |-> h.ran + t.ran,
            lines |-> h.lines \o t.lines] :
              h \in from_list(Head(ll)), t \in MapFromList(Tail(ll)) }

NoPlayer == [made |-> FALSE, idx |-> 0, records |-> <<>>]

\* Player.__init__
Player(ll) ==
    { [obj |-> [made |-> TRUE, idx |-> 0, records |-> m.records],
       ran |-> m.ran,
       lines |-> m.lines] : m \in MapFromList(ll) }

\* A faulty get: the position is not advanced
get_no_advance(self, cmd) ==
    IF ~(self.idx < Len(self.records))
    THEN [self |-> self, exc |-> IndexError, ret |-> None]
    ELSE LET result == self.records[self.idx + 1] IN
         IF result.cmd # cmd
         THEN [self |-> self,
               exc |-> ValueError(<<"expected:", result.cmd, " but called:", cmd>>),
               ret |-> None]
         ELSE [self |-> self, exc |-> NoExc, ret |-> Some(result)]

\* A faulty get: the position is advanced before the command is compared
get_early_advance(self, cmd) ==
    IF ~(self.idx < Len(self.records))
    THEN [self |-> self, exc |-> IndexError, ret |-> None]
    ELSE LET result == self.records[self.idx + 1] IN
         IF result.cmd # cmd
         THEN [self |-> [self EXCEPT !.idx = self.idx + 1],
               exc |-> ValueError(<<"expected:", result.cmd, " but called:", cmd>>),
               ret |-> None]
         ELSE [self |-> [self EXCEPT !.idx = self.idx + 1],
               exc |-> NoExc,
               ret |-> Some(result)]

\* A faulty get: past the end it reads records[idx - 1], the last record
get_stale(self, cmd) ==
    LET at == IF self.idx < Len(self.records) THEN self.idx + 1 ELSE self.idx IN
    IF at = 0
    THEN [self |-> self, exc |-> IndexError, ret |-> None]
    ELSE LET result == self.records[at] IN
         IF result.cmd # cmd
         THEN [self |-> self,
               exc |-> ValueError(<<"expected:", result.cmd, " but called:", cmd>>),
               ret |-> None]
         ELSE [self |-> [self EXCEPT !.idx = at], exc |-> NoExc, ret |-> Some(result)]

\* A faulty get: the position is advanced before the list is indexed
get_advance_first(self, cmd) ==
    IF ~(self.idx < Len(self.records))
    THEN [self |-> [self EXCEPT !.idx = self.idx + 1], exc |-> IndexError, ret |-> None]
    ELSE LET result == self.records[self.idx + 1] IN
         IF result.cmd # cmd
         THEN [self |-> self,
               exc |-> ValueError(<<"expected:", result.cmd, " but called:", cmd>>),
               ret |-> None]
         ELSE [self |-> [self EXCEPT !.idx = self.idx + 1],
               exc |-> NoExc,
               ret |-> Some(result)]

\* Player.get: the object afterwards, the exception raised, the value returned.
\* Python indexes from 0, sequences here from 1.
get(self, cmd) ==
    IF ~(self.idx < Len(self.records))
    THEN [self |-> self, exc |-> IndexError, ret |-> None]
    ELSE LET result == self.records[self.idx + 1] IN
         IF result.cmd # cmd
         THEN [self |-> self,
               exc |-> ValueError(<<"expected:", result.cmd, " but called:", cmd>>),
               ret |-> None]
         ELSE [self |-> [self EXCEPT !.idx = self.idx + 1],
               exc |-> NoExc,
               ret |-> Some(result)]

\* A faulty assert_at_the_end: the two numbers of the message exchanged
assert_at_the_end_swapped(self) ==
    IF self.idx # Len(self.records)
    THEN ValueError(<<"idx:", Len(self.records), " not at the end:", self.idx>>)
    ELSE NoExc

\* Player.assert_at_the_end: the exception raised
assert_at_the_end(self) ==
    IF self.idx # Len(self.records)
    THEN ValueError(<<"idx:", self.idx, " not at the end:", Len(self.records)>>)
    ELSE NoExc

----------------------------------------------------------------------------
(* The persisted document *)

RECORDS == "records"
CMD_LINE == "cmdLine"

\* json.dump of the Recorder's dict: the members of a JSON object, in the
\* order the keys were inserted
json_dump(obj) == << <<CMD_LINE, obj[CMD_LINE]>>, <<RECORDS, obj[RECORDS]>> >>

\* json.load: the dict of a JSON object's members
json_load(doc) ==
    [k \in {doc[i][1] : i \in DOMAIN doc} |->
        doc[CHOOSE i \in DOMAIN doc : doc[i][1] = k][2]]

\* parse_recorder_file
parse_recorder_file(f) ==
    LET load == json_load(f) IN <<load[CMD_LINE], load[RECORDS]>>

----------------------------------------------------------------------------
(* Recorder *)

NoRecorder ==
    [made |-> FALSE, content |-> (CMD_LINE :> <<>>) @@ (RECORDS :> <<>>), records |-> <<>>]

\* Recorder.__init__ up to the call of write: content[RECORDS] is the very
\* list self.records
Recorder(cmd_line) ==
    [made |-> TRUE, content |-> (CMD_LINE :> cmd_line) @@ (RECORDS :> <<>>), records |-> <<>>]

\* Recorder.write: what the file holds afterwards
write(self) == Some(json_dump(self.content))

\* A faulty record: content[RECORDS] is a copy of the list, not the list
record_copy(self, run) ==
    [self EXCEPT !.records = Append(self.records, to_list(run))]

\* A faulty record: the new record is put in front of the earlier ones
record_prepend(self, run) ==
    LET records == <<to_list(run)>> \o self.records IN
    [self EXCEPT !.records = records, !.content[RECORDS] = records]

\* Recorder.record up to the call of write: the append to self.records is an
\* append to content[RECORDS], the same list
record(self, run) ==
    LET records == Append(self.records, to_list(run)) IN
    [self EXCEPT !.records = records, !.content[RECORDS] = records]

----------------------------------------------------------------------------
(* Cmd *)

NoCmd == [made |-> FALSE, record_to |-> FALSE, replay_from |-> FALSE, run |-> None]

\* Cmd.__init__: record_to / replay_from say whether the Recorder / the Player
\* was passed (FALSE is the default None); self.run is not yet set
Cmd(record_to, replay_from) ==
    [made |-> TRUE, record_to |-> record_to, replay_from |-> replay_from, run |-> None]

\* A faulty tail of q: the exit code counts only when stderr is not empty
q_tail_stderr(self, rec, f, ply, lines, ran, print_out, show_err) ==
    LET run == self.run[1]
        l1 == IF print_out THEN lines \o print_err(<<run.out>>) ELSE lines
        l2 == IF show_err /\ run.err # "" THEN l1 \o print_err(<<run.err>>) ELSE l1
        failed == run.rc # 0 /\ run.err # ""
    IN  [self |-> self, recorder |-> rec, file |-> f, player |-> ply,
         exc |-> IF failed THEN ValueError(<<"rc:", run.rc>>) ELSE NoExc,
         ret |-> IF failed THEN None ELSE Some("self"),
         lines |-> l2, ran |-> ran]

\* Cmd.q from `if print_out:` on: the echo of the captured output and the
\* check of the exit code, for the executor `self` holding its new self.run
q_tail(self, rec, f, ply, lines, ran, print_out, show_err) ==
    LET run == self.run[1]
        l1 == IF print_out THEN lines \o print_err(<<run.out>>) ELSE lines
        l2 == IF show_err /\ run.err # "" THEN l1 \o print_err(<<run.err>>) ELSE l1
    IN  [self |-> self, recorder |-> rec, file |-> f, player |-> ply,
         exc |-> IF run.rc # 0 THEN ValueError(<<"rc:", run.rc>>) ELSE NoExc,
         ret |-> IF run.rc # 0 THEN None ELSE Some("self"),
         lines |-> l2, ran |-> ran]

\* A faulty q: the record is appended whenever record_to is set, also when
\* the record comes from the Player
q_record_always(self, rec, f, w, ply, cmd, print_out, show_err) ==
    IF ~self.replay_from
    THEN { LET me == [self EXCEPT !.run = Some(c.obj)] IN
           IF ~self.record_to
           THEN q_tail(me, rec, f, ply, c.lines, c.ran, print_out, show_err)
           ELSE IF w
           THEN q_tail(me, record(rec, c.obj), write(record(rec, c.obj)), ply,
                       c.lines, c.ran, print_out, show_err)
           ELSE [self |-> me, recorder |-> record(rec, c.obj), file |-> f, player |-> ply,
                 exc |-> OSError, ret |-> None, lines |-> c.lines, ran |-> c.ran] :
             c \in CmdRun(cmd, None, None, None) }
    ELSE LET g == get(ply, cmd) IN
         IF g.exc # NoExc
         THEN { [self |-> self, recorder |-> rec, file |-> f, player |-> g.self,
                 exc |-> g.exc, ret |-> None, lines |-> <<>>, ran |-> 0] }
         ELSE LET rec2 == IF self.record_to THEN record(rec, g.ret[1]) ELSE rec
                  f2 == IF self.record_to /\ w THEN write(rec2) ELSE f
              IN  { q_tail([self EXCEPT !.run = g.ret], rec2, f2, g.self,
                           print_err(<<"fake: ", cmd>>), 0, print_out, show_err) }

\* A faulty q: the exit code is checked before the record is appended, so a
\* failing command is not recorded
q_check_first(self, rec, f, w, ply, cmd, print_out, show_err) ==
    IF ~self.replay_from
    THEN { LET me == [self EXCEPT !.run = Some(c.obj)] IN
           IF ~self.record_to \/ c.obj.rc # 0
           THEN q_tail(me, rec, f, ply, c.lines, c.ran, print_out, show_err)
           ELSE IF w
           THEN q_tail(me, record(rec, c.obj), write(record(rec, c.obj)), ply,
                       c.lines, c.ran, print_out, show_err)
           ELSE [self |-> me, recorder |-> record(rec, c.obj), file |-> f, player |-> ply,
                 exc |-> OSError, ret |-> None, lines |-> c.lines, ran |-> c.ran] :
             c \in CmdRun(cmd, None, None, None) }
    ELSE LET g == get(ply, cmd) IN
         IF g.exc # NoExc
         THEN { [self |-> self, recorder |-> rec, file |-> f, player |-> g.self,
                 exc |-> g.exc, ret |-> None, lines |-> <<>>, ran |-> 0] }
         ELSE { q_tail([self EXCEPT !.run = g.ret], rec, f, g.self,
                       print_err(<<"fake: ", cmd>>), 0, print_out, show_err) }

\* A faulty q: a replayed record with a non-zero exit code raises before it is
\* stored in self.run
q_check_unstored(self, rec, f, w, ply, cmd, print_out, show_err) ==
    IF ~self.replay_from
    THEN { LET me == [self EXCEPT !.run = Some(c.obj)] IN
           IF ~self.record_to
           THEN q_tail(me, rec, f, ply, c.lines, c.ran, print_out, show_err)
           ELSE IF w
           THEN q_tail(me, record(rec, c.obj), write(record(rec, c.obj)), ply,
                       c.lines, c.ran, print_out, show_err)
           ELSE [self |-> me, recorder |-> record(rec, c.obj), file |-> f, player |-> ply,
                 exc |-> OSError, ret |-> None, lines |-> c.lines, ran |-> c.ran] :
             c \in CmdRun(cmd, None, None, None) }
    ELSE LET g == get(ply, cmd) IN
         IF g.exc # NoExc
         THEN { [self |-> self, recorder |-> rec, file |-> f, player |-> g.self,
                 exc |-> g.exc, ret |-> None, lines |-> <<>>, ran |-> 0] }
         ELSE IF g.ret[1].rc # 0
         THEN { [self |-> self, recorder |-> rec, file |-> f, player |-> g.self,
                 exc |-> ValueError(<<"rc:", g.ret[1].rc>>), ret |-> None,
                 lines |-> print_err(<<"fake: ", cmd>>), ran |-> 0] }
         ELSE { q_tail([self EXCEPT !.run = g.ret], rec, f, g.self,
                       print_err(<<"fake: ", cmd>>), 0, print_out, show_err) }

\* A faulty q: the "fake" line is printed before the Player is asked
q_fake_first(self, rec, f, w, ply, cmd, print_out, show_err) ==
    IF ~self.replay_from
    THEN { LET me == [self EXCEPT !.run = Some(c.obj)] IN
           IF ~self.record_to
           THEN q_tail(me, rec, f, ply, c.lines, c.ran, print_out, show_err)
           ELSE IF w
           THEN q_tail(me, record(rec, c.obj), write(record(rec, c.obj)), ply,
                       c.lines, c.ran, print_out, show_err)
           ELSE [self |-> me, recorder |-> record(rec, c.obj), file |-> f, player |-> ply,
                 exc |-> OSError, ret |-> None, lines |-> c.lines, ran |-> c.ran] :
             c \in CmdRun(cmd, None, None, None) }
    ELSE LET g == get(ply, cmd) IN
         IF g.exc # NoExc
         THEN { [self |-> self, recorder |-> rec, file |-> f, player |-> g.self,
                 exc |-> g.exc, ret |-> None,
                 lines |-> print_err(<<"fake: ", cmd>>), ran |-> 0] }
         ELSE { q_tail([self EXCEPT !.run = g.ret], rec, f, g.self,
                       print_err(<<"fake: ", cmd>>), 0, print_out, show_err) }

\* A faulty q: the record the Player hands out is used but not kept in
\* self.run
q_no_store(self, rec, f, w, ply, cmd, print_out, show_err) ==
    IF ~self.replay_from
    THEN { LET me == [self EXCEPT !.run = Some(c.obj)] IN
           IF ~self.record_to
           THEN q_tail(me, rec, f, ply, c.lines, c.ran, print_out, show_err)
           ELSE IF w
           THEN q_tail(me, record(rec, c.obj), write(record(rec, c.obj)), ply,
                       c.lines, c.ran, print_out, show_err)
           ELSE [self |-> me, recorder |-> record(rec, c.obj), file |-> f, player |-> ply,
                 exc |-> OSError, ret |-> None, lines |-> c.lines, ran |-> c.ran] :
             c \in CmdRun(cmd, None, None, None) }
    ELSE LET g == get(ply, cmd) IN
         IF g.exc # NoExc
         THEN { [self |-> self, recorder |-> rec, file |-> f, player |-> g.self,
                 exc |-> g.exc, ret |-> None, lines |-> <<>>, ran |-> 0] }
         ELSE { [q_tail([self EXCEPT !.run = g.ret], rec, f, g.self,
                        print_err(<<"fake: ", cmd>>), 0, print_out, show_err)
                   EXCEPT !.self = self] }

\* A faulty q: the "fake" line is printed only for a record with exit code 0
q_fake_on_success(self, rec, f, w, ply, cmd, print_out, show_err) ==
    IF ~self.replay_from
    THEN { LET me == [self EXCEPT !.run = Some(c.obj)] IN
           IF ~self.record_to
           THEN q_tail(me, rec, f, ply, c.lines, c.ran, print_out, show_err)
           ELSE IF w
           THEN q_tail(me, record(rec, c.obj), write(record(rec, c.obj)), ply,
                       c.lines, c.ran, print_out, show_err)
           ELSE [self |-> me, recorder |-> record(rec, c.obj), file |-> f, player |-> ply,
                 exc |-> OSError, ret |-> None, lines |-> c.lines, ran |-> c.ran] :
             c \in CmdRun(cmd, None, None, None) }
    ELSE LET g == get(ply, cmd) IN
         IF g.exc # NoExc
         THEN { [self |-> self, recorder |-> rec, file |-> f, player |-> g.self,
                 exc |-> g.exc, ret |-> None, lines |-> <<>>, ran |-> 0] }
         ELSE { q_tail([self EXCEPT !.run = g.ret], rec, f, g.self,
                       IF g.ret[1].rc = 0 THEN print_err(<<"fake: ", cmd>>) ELSE <<>>,
                       0, print_out, show_err) }

\* A faulty q: an error of the Recorder is caught and dropped
q_swallow(self, rec, f, w, ply, cmd, print_out, show_err) ==
    IF ~self.replay_from
    THEN { LET me == [self EXCEPT !.run = Some(c.obj)] IN
           IF ~self.record_to
           THEN q_tail(me, rec, f, ply, c.lines, c.ran, print_out, show_err)
           ELSE q_tail(me, record(rec, c.obj), IF w THEN write(record(rec, c.obj)) ELSE f,
                       ply, c.lines, c.ran, print_out, show_err) :
             c \in CmdRun(cmd, None, None, None) }
    ELSE LET g == get(ply, cmd) IN
         IF g.exc # NoExc
         THEN { [self |-> self, recorder |-> rec, file |-> f, player |-> g.self,
                 exc |-> g.exc, ret |-> None, lines |-> <<>>, ran |-> 0] }
         ELSE { q_tail([self EXCEPT !.run = g.ret], rec, f, g.self,
                       print_err(<<"fake: ", cmd>>), 0, print_out, show_err) }

\* Cmd.q: the set of outcomes, each the objects and the file afterwards, the
\* exception raised, the value returned, the lines written and the number of
\* processes run.  f is what the file holds and w whether it can be opened
\* for writing: when it cannot, Recorder.write raises out of q.
q(self, rec, f, w, ply, cmd, print_out, show_err) ==
    IF ~self.replay_from
    THEN { LET me == [self EXCEPT !.run = Some(c.obj)] IN
           IF ~self.record_to
           THEN q_tail(me, rec, f, ply, c.lines, c.ran, print_out, show_err)
           ELSE IF w
           THEN q_tail(me, record(rec, c.obj), write(record(rec, c.obj)), ply,
                       c.lines, c.ran, print_out, show_err)
           ELSE [self |-> me, recorder |-> record(rec, c.obj), file |-> f, player |-> ply,
                 exc |-> OSError, ret |-> None, lines |-> c.lines, ran |-> c.ran] :
             c \in CmdRun(cmd, None, None, None) }
    ELSE LET g == get(ply, cmd) IN
         IF g.exc # NoExc
         THEN { [self |-> self, recorder |-> rec, file |-> f, player |-> g.self,
                 exc |-> g.exc, ret |-> None, lines |-> <<>>, ran |-> 0] }
         ELSE { q_tail([self EXCEPT !.run = g.ret], rec, f, g.self,
                       print_err(<<"fake: ", cmd>>), 0, print_out, show_err) }

\* The texts of the model that are JSON documents, each with its value; every
\* other text here ("" and a bare word) is not JSON
JsonTexts == "[]" :> <<>>

\* json.loads
json_loads(s) ==
    IF s \in DOMAIN JsonTexts
    THEN [exc |-> NoExc, ret |-> Some(JsonTexts[s])]
    ELSE [exc |-> JSONDecodeError, ret |-> None]

\* A faulty Cmd.json: the error of json.loads is printed and raised again
json_reraise(self) ==
    IF self.run = None
    THEN [exc |-> AttributeError, ret |-> None, lines |-> <<>>]
    ELSE LET r == json_loads(self.run[1].out) IN
         IF r.exc = NoExc
         THEN [exc |-> NoExc, ret |-> r.ret, lines |-> <<>>]
         ELSE [exc |-> r.exc, ret |-> None,
               lines |-> print_err(<<"not json: ", self.run[1].out>>)]

\* Cmd.json: None (Python's) is the absent value; without self.run the handler
\* itself raises, reading self.run for the message
json(self) ==
    IF self.run = None
    THEN [exc |-> AttributeError, ret |-> None, lines |-> <<>>]
    ELSE LET r == json_loads(self.run[1].out) IN
         IF r.exc = NoExc
         THEN [exc |-> NoExc, ret |-> r.ret, lines |-> <<>>]
         ELSE [exc |-> NoExc, ret |-> None,
               lines |-> print_err(<<"not json: ", self.run[1].out>>)]

\* Cmd.text
text(self) ==
    IF self.run = None
    THEN [exc |-> AttributeError, ret |-> None]
    ELSE [exc |-> NoExc, ret |-> Some(self.run[1].out)]

----------------------------------------------------------------------------
(* State *)

\* every CmdRun object a caller can hand to Recorder.record
Runs == [cmd : Cmds, rc : RCs, out : Outs, err : Errs]

\* what the file can hold before the session: nothing, or the log an earlier
\* recording session left
PriorFiles ==
    { None,
      write(record(Recorder(<<"azwebapps">>),
                   [cmd |-> "a", rc |-> 0, out |-> "[]", err |-> "err"])) }

NoSession == [known |-> FALSE, cmd_line |-> <<>>, runs |-> <<>>, calls |-> <<>>]

Call(op, arg, exc, ret, ran) ==
    [op |-> op, arg |-> arg, exc |-> exc, ret |-> ret, idx0 |-> player.idx, ran |-> ran]

Init ==
    /\ file \in PriorFiles
    /\ writable = TRUE
    /\ recorder = NoRecorder
    /\ player = NoPlayer
    /\ executor = NoCmd
    /\ loaded = None
    /\ last = [op |-> "", arg |-> None, exc |-> NoExc, ret |-> None, idx0 |-> 0, ran |-> 0]
    /\ diag = <<>>
    /\ session = NoSession
    /\ source = NoSession
    /\ consumed = 0
    /\ replayed = [n |-> 0, same |-> TRUE]

\* rec = Recorder(file, cmd_line)
RecorderInit(cmd_line) ==
    /\ ~recorder.made
    /\ IF writable
       THEN LET rec == Recorder(cmd_line) IN
            /\ recorder' = rec
            /\ file' = write(rec)
            /\ session' = [known |-> TRUE, cmd_line |-> cmd_line,
                           runs |-> <<>>, calls |-> <<>>]
            /\ last' = Call("Recorder", cmd_line, NoExc, None, 0)
       ELSE /\ last' = Call("Recorder", cmd_line, OSError, None, 0)
            /\ UNCHANGED <<recorder, file, session>>
    /\ diag' = <<>>
    /\ UNCHANGED <<writable, player, executor, loaded, source, consumed, replayed>>

\* rec.record(run)
Record(run) ==
    /\ recorder.made
    /\ Len(recorder.records) < MaxRecords
    /\ LET rec == record(recorder, run) IN
       /\ recorder' = rec
       /\ file' = IF writable THEN write(rec) ELSE file
    /\ session' = [session EXCEPT !.runs = Append(@, run)]
    /\ last' = Call("record", run, IF writable THEN NoExc ELSE OSError, None, 0)
    /\ diag' = <<>>
    /\ UNCHANGED <<writable, player, executor, loaded, source, consumed, replayed>>

\* cmd_line, records = parse_recorder_file(file); p = Player(records)
Load ==
    /\ ~player.made
    /\ IF file = None
       THEN /\ last' = Call("Player", None, FileNotFoundError, None, 0)
            /\ diag' = <<>>
            /\ UNCHANGED <<player, loaded, source>>
       ELSE LET parsed == parse_recorder_file(file[1]) IN
            \E o \in Player(parsed[2]) :
                /\ player' = o.obj
                /\ loaded' = Some(parsed)
                /\ source' = session
                /\ last' = Call("Player", None, NoExc, None, o.ran)
                /\ diag' = o.lines
    /\ UNCHANGED <<file, writable, recorder, executor, session, consumed, replayed>>

\* p.get(cmd)
Get(cmd) ==
    /\ player.made
    /\ LET g == get(player, cmd) IN
       /\ player' = g.self
       /\ last' = Call("get", cmd, g.exc, g.ret, 0)
       /\ consumed' = IF g.exc = NoExc THEN consumed + 1 ELSE consumed
    /\ diag' = <<>>
    /\ UNCHANGED <<file, writable, recorder, executor, loaded, session, source, replayed>>

\* A faulty p.assert_at_the_end(): a failed check puts the Player back at the
\* start
AssertAtTheEnd_rewind ==
    /\ player.made
    /\ last' = Call("assert_at_the_end", None, assert_at_the_end(player), None, 0)
    /\ player' = IF assert_at_the_end(player) = NoExc THEN player
                 ELSE [player EXCEPT !.idx = 0]
    /\ diag' = <<>>
    /\ UNCHANGED <<file, writable, recorder, executor, loaded, session, source,
                   consumed, replayed>>

\* p.assert_at_the_end()
AssertAtTheEnd ==
    /\ player.made
    /\ last' = Call("assert_at_the_end", None, assert_at_the_end(player), None, 0)
    /\ diag' = <<>>
    /\ UNCHANGED <<file, writable, recorder, player, executor, loaded, session, source,
                   consumed, replayed>>

\* c = Cmd(record_to, replay_from), each either the object made or None.
\* A session that has made a Recorder or a Player passes one of them at least;
\* the executor given neither is the one of a session that has made neither.
CmdInit(record_to, replay_from) ==
    /\ record_to => recorder.made
    /\ replay_from => player.made
    /\ (recorder.made \/ player.made) => (record_to \/ replay_from)
    /\ executor' = Cmd(record_to, replay_from)
    /\ last' = Call("Cmd", <<record_to, replay_from>>, NoExc, None, 0)
    /\ diag' = <<>>
    /\ UNCHANGED <<file, writable, recorder, player, loaded, session, source,
                   consumed, replayed>>

\* c.q(cmd, print_out, show_err)
Q(cmd, print_out, show_err) ==
    /\ executor.made
    /\ (~executor.replay_from /\ executor.record_to) => Len(recorder.records) < MaxRecords
    /\ \E o \in q(executor, recorder, file, writable, player, cmd, print_out, show_err) :
        LET call == [cmd |-> cmd, exc |-> o.exc, run |-> o.self.run] IN
        /\ executor' = o.self
        /\ recorder' = o.recorder
        /\ file' = o.file
        /\ player' = o.player
        /\ last' = Call("q", cmd, o.exc, o.ret, o.ran)
        /\ diag' = o.lines
        /\ session' = IF ~executor.replay_from /\ executor.record_to
                      THEN [session EXCEPT !.runs = Append(@, o.self.run[1]),
                                           !.calls = Append(@, call)]
                      ELSE session
        /\ consumed' = IF executor.replay_from /\ (o.exc = NoExc \/ o.exc.msg[1] = "rc:")
                       THEN consumed + 1
                       ELSE consumed
        /\ replayed' = IF ~executor.replay_from THEN replayed
                       ELSE IF /\ replayed.same
                               /\ replayed.n < Len(source.calls)
                               /\ cmd = source.calls[replayed.n + 1].cmd
                            THEN [n |-> replayed.n + 1, same |-> TRUE]
                            ELSE [n |-> 0, same |-> FALSE]
    /\ UNCHANGED <<writable, loaded, source>>

\* The Session Log and the Replay Cursor used directly
Next ==
    \/ \E cmd_line \in CmdLines : RecorderInit(cmd_line)
    \/ \E run \in Runs : Record(run)
    \/ Load
    \/ \E cmd \in Cmds : Get(cmd)
    \/ AssertAtTheEnd

Spec == Init /\ [][Next]_vars

\* The Session Log and the Replay Cursor used through the Command Executor
NextExec ==
    \/ \E cmd_line \in {<<"azwebapps", "-r">>} : RecorderInit(cmd_line)
    \/ Load
    \/ \E record_to \in BOOLEAN, replay_from \in BOOLEAN : CmdInit(record_to, replay_from)
    \/ \E cmd \in Cmds, print_out \in BOOLEAN, show_err \in BOOLEAN : Q(cmd, print_out, show_err)
    \/ AssertAtTheEnd

SpecExec == Init /\ [][NextExec]_vars

\* The environment: the file becomes, or stops being, one that
\* self.file.open("wt") can open
Chmod(w) ==
    /\ writable # w
    /\ writable' = w
    /\ UNCHANGED <<file, recorder, player, executor, loaded, last, diag, session, source,
                   consumed, replayed>>

\* Recording, live, with a file that cannot always be opened for writing: the
\* records handed over directly are of one command, q is called with its
\* default options
NextIO ==
    \/ \E cmd_line \in {<<"azwebapps", "-r">>} : RecorderInit(cmd_line)
    \/ \E run \in {r \in Runs : r.cmd = "a"} : Record(run)
    \/ \E record_to \in BOOLEAN : CmdInit(record_to, FALSE)
    \/ \E cmd \in Cmds : Q(cmd, FALSE, TRUE)
    \/ \E w \in BOOLEAN : Chmod(w)

SpecIO == Init /\ [][NextIO]_vars

\* c.json()
Json ==
    /\ executor.made
    /\ LET o == json(executor) IN
       /\ last' = Call("json", None, o.exc, o.ret, 0)
       /\ diag' = o.lines
    /\ UNCHANGED <<file, writable, recorder, player, executor, loaded, session, source,
                   consumed, replayed>>

\* c.text()
Text ==
    /\ executor.made
    /\ LET o == text(executor) IN last' = Call("text", None, o.exc, o.ret, 0)
    /\ diag' = <<>>
    /\ UNCHANGED <<file, writable, recorder, player, executor, loaded, session, source,
                   consumed, replayed>>

\* The Command Executor and its accessors, q called with its default options
NextJson ==
    \/ \E cmd_line \in {<<"azwebapps", "-r">>} : RecorderInit(cmd_line)
    \/ Load
    \/ \E record_to \in BOOLEAN, replay_from \in BOOLEAN : CmdInit(record_to, replay_from)
    \/ \E cmd \in Cmds : Q(cmd, FALSE, TRUE)
    \/ Json
    \/ Text

SpecJson == Init /\ [][NextJson]_vars

----------------------------------------------------------------------------
(* Properties *)

\* the errors by the names the specification gives them
CommandFailed(rc) == ValueError(<<"rc:", rc>>)
SequenceMismatch(expected, called) == ValueError(<<"expected:", expected, " but called:", called>>)
OutOfRecords == IndexError
IncompleteReplay(at, total) == ValueError(<<"idx:", at, " not at the end:", total>>)

\* the last call was a q of a replaying Cmd / of a live Cmd
ReplayQ == last.op = "q" /\ executor.replay_from
LiveQ == last.op = "q" /\ ~executor.replay_from
\* the last call, a q, obtained a record: a live q always does, a replaying q
\* does when the Player handed one out
Obtained == LiveQ \/ (ReplayQ /\ player.idx = last.idx0 + 1)

\* C1: round trip. A Player constructed from the file of a Recorder that was
\* created with a command line and handed N records holds N records,
\* field-equal, in order, to the ones handed over, and the command line read
\* back is the one given; a get with the command of the record at the
\* position returns exactly that handed-over record.
C1_RoundTrip ==
    (player.made /\ source.known) =>
        /\ loaded = Some(<<source.cmd_line, [i \in 1..Len(source.runs) |->
                              <<source.runs[i].cmd, source.runs[i].rc,
                                source.runs[i].out, source.runs[i].err>>]>>)
        /\ player.records = source.runs
        /\ (/\ last.op = "get"
            /\ last.idx0 < Len(source.runs)
            /\ last.arg = source.runs[last.idx0 + 1].cmd)
           => /\ last.exc = NoExc
              /\ last.ret = Some(source.runs[last.idx0 + 1])
              /\ consumed = last.idx0 + 1

C1_Witness ==
    /\ player.made /\ source.known
    /\ Len(source.runs) = 2
    /\ source.runs[1] # source.runs[2]
    /\ source.runs[2].out # source.runs[2].err
    /\ last.op = "get" /\ last.exc = NoExc /\ last.idx0 = 1

\* C2: sequence fidelity. While the commands issued through a replaying Cmd
\* are, in order, the commands that were issued through the recording Cmd, each
\* call ends as the recorded call did (same exception or none, same self.run),
\* and once all of them are issued assert_at_the_end raises nothing.
C2_Fidelity ==
    /\ (ReplayQ /\ source.known /\ replayed.same /\ replayed.n >= 1) =>
          /\ last.exc = source.calls[replayed.n].exc
          /\ executor.run = source.calls[replayed.n].run
    /\ (/\ player.made /\ source.known
        /\ replayed.same /\ replayed.n = Len(source.calls)) =>
          /\ assert_at_the_end(player) = NoExc
          /\ last.op = "assert_at_the_end" => last.exc = NoExc

C2_Witness ==
    /\ source.known /\ replayed.same /\ replayed.n = 2
    /\ Len(source.calls) = 2
    /\ source.calls[1].exc = CommandFailed(2)
    /\ source.calls[2].exc = NoExc
    /\ last.op = "assert_at_the_end" /\ last.exc = NoExc

\* C3: get(c) returns a record exactly when the position is inside the list
\* and the record there has command c, whatever its exit code and output; it
\* then returns the record at the position before the call, the k-th record
\* on the k-th return, and the position has grown by one.
C3_Next ==
    last.op = "get" =>
        LET inside == last.idx0 < Len(player.records)
            ok == inside /\ player.records[last.idx0 + 1].cmd = last.arg
        IN  /\ (last.exc = NoExc) <=> ok
            /\ ok => /\ last.ret = Some(player.records[last.idx0 + 1])
                     /\ last.ret = Some(player.records[consumed])
                     /\ player.idx = last.idx0 + 1

C3_Witness ==
    /\ last.op = "get" /\ last.exc = NoExc
    /\ last.idx0 = 1 /\ consumed = 2
    /\ last.ret[1].rc # 0
    /\ player.records[1] # player.records[2]

\* C4: order enforcement. A get whose command differs from the command of the
\* record at the position raises the mismatch naming the recorded and the
\* called command, and leaves the position, so that a get with the recorded
\* command still returns that record.
C4_Order ==
    (/\ last.op = "get"
     /\ last.idx0 < Len(player.records)
     /\ player.records[last.idx0 + 1].cmd # last.arg) =>
        LET recorded == player.records[last.idx0 + 1] IN
        /\ last.exc = SequenceMismatch(recorded.cmd, last.arg)
        /\ last.ret = None
        /\ player.idx = last.idx0
        /\ get(player, recorded.cmd).exc = NoExc
        /\ get(player, recorded.cmd).ret = Some(recorded)

C4_Witness ==
    /\ last.op = "get" /\ last.arg = "b" /\ last.idx0 = 0
    /\ Len(player.records) = 2
    /\ player.records[1].cmd = "a" /\ player.records[2].cmd = "b"
    /\ last.exc = SequenceMismatch("a", "b")

\* C5: over-read. A get at position = number of records, the empty list
\* included, raises the index error, returns no record and leaves the position.
C5_OverRead ==
    (last.op = "get" /\ last.idx0 = Len(player.records)) =>
        /\ last.exc = OutOfRecords
        /\ last.ret = None
        /\ player.idx = last.idx0

C5_Witness ==
    /\ last.op = "get" /\ last.idx0 = 2 /\ Len(player.records) = 2
    /\ last.arg = player.records[2].cmd
    /\ last.exc = OutOfRecords

\* C6: exhaustion. assert_at_the_end raises nothing exactly when as many gets
\* have returned a record as there are records; otherwise it raises the error
\* naming how many were consumed and how many there are.
C6_Exhaustion ==
    last.op = "assert_at_the_end" =>
        LET N == Len(player.records) IN
        /\ (last.exc = NoExc) <=> (consumed = N)
        /\ consumed < N => last.exc = IncompleteReplay(consumed, N)
        /\ consumed <= N

C6_Witness ==
    /\ last.op = "assert_at_the_end"
    /\ Len(player.records) = 2 /\ consumed = 1
    /\ last.exc = IncompleteReplay(1, 2)

\* C7: in each mode q raises the failure carrying the exit code exactly when
\* the record it obtained has a non-zero exit code, whatever the output
\* captured and the echo asked for; when it obtained none the error is the
\* Player's.
C7_NonZeroExit ==
    last.op = "q" =>
        IF Obtained
        THEN LET run == executor.run[1] IN
             /\ run.rc # 0 => last.exc = CommandFailed(run.rc)
             /\ run.rc = 0 => last.exc = NoExc
        ELSE last.exc # NoExc /\ last.exc.msg[1] # "rc:"

C7_Witness ==
    /\ ReplayQ /\ Obtained
    /\ executor.run[1].rc = 2 /\ executor.run[1].err = ""
    /\ last.exc = CommandFailed(2)

\* C8: constructing the Player from the persisted records and every q of a
\* replaying Cmd run no process; the record such a q obtains is the recorded one.
C8_NoProcess ==
    /\ (last.op = "Player" \/ ReplayQ) =>
          /\ last.ran = 0
          /\ \A i \in DOMAIN diag : diag[i][1] # "run: "
    /\ (ReplayQ /\ Obtained) => executor.run = Some(player.records[last.idx0 + 1])

C8_Witness ==
    /\ ReplayQ /\ Obtained /\ source.known
    /\ executor.run[1].rc = 0
    /\ last.idx0 = 1

\* C9: durability. Once the Recorder is constructed, after each of its calls
\* the file holds the command line it was given and the records it holds, which
\* are the records handed over, in order; right after construction the file
\* holds no record.
C9_Durable ==
    recorder.made =>
        /\ file = Some(<< <<"cmdLine", session.cmd_line>>, <<"records", recorder.records>> >>)
        /\ recorder.records = [i \in 1..Len(session.runs) |->
                                  <<session.runs[i].cmd, session.runs[i].rc,
                                    session.runs[i].out, session.runs[i].err>>]
        /\ last.op = "Recorder" => file[1][2][2] = <<>>

C9_Witness ==
    /\ recorder.made /\ last.op = "record"
    /\ Len(recorder.records) = 2

\* C10: the position stays between 0 and the number of records, and no step
\* decreases it.
C10_Position ==
    /\ [](player.idx >= 0 /\ player.idx <= Len(player.records))
    /\ [][player'.idx >= player.idx]_vars

C10_Witness ==
    /\ player.made /\ player.idx = Len(player.records) /\ player.idx = 2
    /\ last.op = "get" /\ last.exc = OutOfRecords

\* C11: exclusive roles. However the Cmd was constructed, a q neither changes
\* what was passed to it nor does both things: with a Player passed it leaves
\* the Recorder and the file alone, without one it leaves the Player alone.  So
\* a Cmd that ever consumes from the Player never appends to the Recorder.
C11_Exclusive ==
    [][last'.op = "q" =>
          /\ executor'.record_to = executor.record_to
          /\ executor'.replay_from = executor.replay_from
          /\ executor.replay_from => (recorder' = recorder /\ file' = file)
          /\ ~executor.replay_from => (player' = player /\ consumed' = consumed)
          /\ ~(recorder' # recorder /\ player' # player)]_vars

C11_Witness ==
    /\ ReplayQ /\ Obtained
    /\ executor.record_to /\ executor.replay_from
    /\ player.idx = 2
    /\ Len(recorder.records) = 2 /\ file = write(recorder)

\* the last call was a q of a live Cmd that records
RecordingQ == LiveQ /\ executor.record_to

\* C12: one record per command run. A q of a live, recording Cmd runs one
\* command and appends the record of exactly that command at the end of the
\* Recorder's records and of the file's, whatever the exit code: when it raises
\* for a non-zero exit code the file already holds the failing record.  The
\* records are as many as the commands run through the recording Cmd, in the
\* order of the calls.
C12_OnePerRun ==
    /\ [](recorder.made =>
            /\ Len(recorder.records) = Len(session.calls)
            /\ parse_recorder_file(file[1])[2] = recorder.records
            /\ \A i \in DOMAIN session.calls :
                  /\ recorder.records[i][1] = session.calls[i].cmd
                  /\ recorder.records[i] = to_list(session.calls[i].run[1]))
    /\ [][(last'.op = "q" /\ ~executor.replay_from /\ executor.record_to) =>
            /\ last'.ran = 1
            /\ executor'.run[1].cmd = last'.arg
            /\ recorder'.records = Append(recorder.records, to_list(executor'.run[1]))
            /\ parse_recorder_file(file'[1])[2] =
                  Append(parse_recorder_file(file[1])[2], to_list(executor'.run[1]))
            /\ executor'.run[1].rc # 0 => last'.exc = CommandFailed(executor'.run[1].rc)]_vars

C12_Witness ==
    /\ RecordingQ /\ last.exc = CommandFailed(2)
    /\ Len(session.calls) = 2 /\ session.calls[1].exc = NoExc
    /\ parse_recorder_file(file[1])[2][2] = <<last.arg, 2, "", "err">>

\* s is t or a front part of t
IsPrefix(s, t) == Len(s) <= Len(t) /\ SubSeq(t, 1, Len(s)) = s

\* C13: append only. Once the Recorder exists no step changes its command line
\* or any record it holds, in memory or in the file: the records before a step
\* are a front part of the records after it, and record(r) makes r the last
\* one, all earlier ones kept in their order.
C13_AppendOnly ==
    [][recorder.made =>
          /\ recorder'.made
          /\ recorder'.content[CMD_LINE] = recorder.content[CMD_LINE]
          /\ parse_recorder_file(file'[1])[1] = parse_recorder_file(file[1])[1]
          /\ IsPrefix(recorder.records, recorder'.records)
          /\ IsPrefix(parse_recorder_file(file[1])[2], parse_recorder_file(file'[1])[2])
          /\ last'.op = "record" =>
                /\ recorder'.records = Append(recorder.records, to_list(last'.arg))
                /\ parse_recorder_file(file'[1])[2] =
                      Append(parse_recorder_file(file[1])[2], to_list(last'.arg))]_vars

C13_Witness ==
    /\ last.op = "record" /\ last.exc = NoExc
    /\ Len(recorder.records) = 2
    /\ recorder.records[1] # recorder.records[2]
    /\ recorder.records[2] = to_list(last.arg)
    /\ parse_recorder_file(file[1]) = <<session.cmd_line, recorder.records>>

\* the last call raised for a non-zero exit code
RaisedCommandFailed == last.exc # NoExc /\ last.exc.msg[1] = "rc:"

\* C14: a failing record is consumed. When the q of a replaying Cmd raises for
\* a non-zero exit code, the position is already one past the record and
\* self.run is that record; the next q, given the command of the record now at
\* the position, obtains that record; and a Player whose records were all
\* obtained, failing ones among them, passes assert_at_the_end.
C14_FailingConsumed ==
    /\ []((ReplayQ /\ RaisedCommandFailed) =>
            /\ player.idx = last.idx0 + 1
            /\ executor.run = Some(player.records[last.idx0 + 1])
            /\ last.exc = CommandFailed(executor.run[1].rc)
            /\ player.idx < Len(player.records) =>
                  LET g == get(player, player.records[player.idx + 1].cmd) IN
                  g.exc = NoExc /\ g.ret = Some(player.records[player.idx + 1]))
    /\ []((last.op = "assert_at_the_end" /\ player.idx = Len(player.records)) =>
            last.exc = NoExc)
    /\ [][(/\ ReplayQ /\ RaisedCommandFailed
            /\ last'.op = "q" /\ executor'.replay_from
            /\ player.idx < Len(player.records)
            /\ last'.arg = player.records[player.idx + 1].cmd) =>
              /\ player'.idx = player.idx + 1
              /\ executor'.run = Some(player.records[player.idx + 1])]_vars

C14_Witness ==
    /\ last.op = "assert_at_the_end" /\ last.exc = NoExc
    /\ executor.replay_from
    /\ Len(player.records) = 2 /\ player.idx = 2
    /\ player.records[1].rc = 2 /\ player.records[2].rc = 2
    /\ player.records[1].cmd # player.records[2].cmd
    /\ executor.run = Some(player.records[2])

\* C15: a failure of the Player leaves everything as it was. When the q of a
\* replaying Cmd is given a command the Player has no record for at its
\* position (none left, or the record there is of another command), the
\* Player's error reaches the caller, and the Player's position and records,
\* self.run, the Recorder and the file are what they were; nothing is printed
\* and no process is run.
C15_CursorFailure ==
    [][(/\ last'.op = "q" /\ executor.replay_from
        /\ \/ player.idx >= Len(player.records)
           \/ player.records[player.idx + 1].cmd # last'.arg) =>
          /\ last'.exc = IF player.idx >= Len(player.records)
                         THEN OutOfRecords
                         ELSE SequenceMismatch(player.records[player.idx + 1].cmd, last'.arg)
          /\ last'.ret = None /\ last'.ran = 0
          /\ player' = player
          /\ executor' = executor
          /\ recorder' = recorder /\ file' = file
          /\ diag' = <<>>]_vars

C15_Witness ==
    /\ ReplayQ /\ ~Obtained
    /\ player.idx = 1 /\ Len(player.records) = 2
    /\ last.exc = SequenceMismatch(player.records[2].cmd, last.arg)
    /\ executor.run = Some(player.records[1])
    /\ diag = <<>>

\* C16: assert_at_the_end only reads. Raising or not, it leaves the Player's
\* position and records as they were, so calling it again gives the same
\* outcome and a get after it does what it would have done without it.  The
\* Player's records are, at every moment, the ones read from the file when it
\* was constructed: no step changes them.
C16_ReadOnly ==
    /\ [](player.made =>
            /\ Len(player.records) = Len(loaded[1][2])
            /\ \A i \in DOMAIN player.records : to_list(player.records[i]) = loaded[1][2][i])
    /\ [][/\ player.made => (player'.made /\ player'.records = player.records)
          /\ last'.op = "assert_at_the_end" =>
                /\ player' = player
                /\ last'.exc = assert_at_the_end(player')
                /\ last.op = "assert_at_the_end" => last'.exc = last.exc
          /\ (last.op = "assert_at_the_end" /\ last'.op = "get") =>
                /\ last'.idx0 = last.idx0
                /\ player' = get([player EXCEPT !.idx = last.idx0], last'.arg).self]_vars

C16_Witness ==
    /\ last.op = "assert_at_the_end" /\ last.exc # NoExc
    /\ player.idx = 1 /\ Len(player.records) = 2
    /\ to_list(player.records[2]) = loaded[1][2][2]

\* C17: the states of a Cmd. A new Cmd holds no record.  A q that returns
\* leaves in self.run the record that call obtained, of the command it was
\* given, and returns the Cmd; a q that raises for a non-zero exit code hands
\* the error to the caller, self.run being the failing record.  self.run
\* changes in no other way than by a q or by making a new Cmd, a Cmd that holds
\* a record never goes back to holding none, and each further q that obtains a
\* record puts its own record in self.run; q has an outcome in every state of
\* the Cmd, whatever the command.
C17_StateMachine ==
    /\ [](last.op = "Cmd" => executor.run = None)
    /\ [](executor.made =>
            \A cmd \in Cmds, print_out \in BOOLEAN, show_err \in BOOLEAN :
                q(executor, recorder, file, writable, player, cmd, print_out, show_err) # {})
    /\ []((last.op = "q" /\ last.exc = NoExc) =>
            /\ executor.run # None
            /\ executor.run[1].cmd = last.arg /\ executor.run[1].rc = 0
            /\ last.ret = Some("self")
            /\ ReplayQ => executor.run = Some(player.records[last.idx0 + 1])
            /\ RecordingQ =>
                  recorder.records[Len(recorder.records)] = to_list(executor.run[1]))
    /\ []((last.op = "q" /\ RaisedCommandFailed) =>
            /\ executor.run # None
            /\ executor.run[1].cmd = last.arg
            /\ last.exc = CommandFailed(executor.run[1].rc)
            /\ last.ret = None)
    /\ [][/\ executor'.run # executor.run => last'.op \in {"q", "Cmd"}
          /\ (executor.run # None /\ last'.op # "Cmd") => executor'.run # None
          /\ executor.made => executor'.made
          /\ (last'.op = "q" /\ last'.exc = NoExc /\ executor.replay_from) =>
                executor'.run = Some(player.records[player.idx + 1])]_vars

C17_Witness ==
    /\ ReplayQ /\ last.exc = NoExc /\ last.idx0 = 1
    /\ player.records[1] # player.records[2]
    /\ executor.run = Some(player.records[2])
    /\ last.ret = Some("self")

\* how many of the lines printed by the last call start with `tag`
Tagged(tag) == Cardinality({i \in DOMAIN diag : diag[i][1] = tag})

\* C18: every command is announced. The first line a live q prints is "run: "
\* with the command, ahead of anything echoed from the process it runs, and it
\* prints one such line for the one process; the first line a replaying q
\* prints when the Player hands out a record is "fake: " with the command,
\* whatever the exit code of the record, one line per record handed out.
C18_Announced ==
    /\ LiveQ =>
          /\ Len(diag) >= 1 /\ diag[1] = <<"run: ", last.arg>>
          /\ Tagged("run: ") = 1 /\ last.ran = 1
          /\ Tagged("fake: ") = 0
    /\ (ReplayQ /\ Obtained) =>
          /\ Len(diag) >= 1 /\ diag[1] = <<"fake: ", last.arg>>
          /\ Tagged("fake: ") = 1
          /\ Tagged("run: ") = 0
    /\ (ReplayQ /\ ~Obtained) => Tagged("fake: ") = 0

C18_Witness ==
    /\ ReplayQ /\ Obtained /\ RaisedCommandFailed
    /\ executor.run[1].rc = 2
    /\ diag = << <<"fake: ", last.arg>>, <<executor.run[1].err>> >>

\* C19: a file that cannot be opened for writing. While it cannot, constructing
\* a Recorder raises the error of open and gives no Recorder, record raises
\* it, and the q of a live, recording Cmd raises it instead of returning,
\* after the command was run; the file is left as it was.  While it can, none
\* of them raises that error.
C19_WriteFails ==
    [][/\ (~writable /\ ~writable') =>
            /\ last'.op = "Recorder" =>
                  last'.exc = OSError /\ ~recorder'.made /\ file' = file
            /\ last'.op = "record" => last'.exc = OSError /\ file' = file
            /\ (last'.op = "q" /\ executor.record_to /\ ~executor.replay_from) =>
                  /\ last'.exc = OSError /\ last'.ret = None
                  /\ last'.ran = 1
                  /\ file' = file
       /\ (writable /\ writable') => last'.exc # OSError]_vars

C19_Witness ==
    /\ ~writable
    /\ RecordingQ /\ last.exc = OSError /\ last.ret = None
    /\ Len(recorder.records) = 2
    /\ Len(parse_recorder_file(file[1])[2]) = 1

\* C20: a stdout that is not JSON. When self.run holds a record whose stdout
\* is not a JSON document, json raises nothing, returns None and prints one
\* line, "not json: " with that stdout; when it is one, json returns its value
\* and prints nothing.  Either way the call leaves self.run, the Player, the
\* Recorder and the file as they were, and q still has an outcome for every
\* command.
C20_NotJson ==
    /\ []((last.op = "json" /\ executor.run # None) =>
            LET out == executor.run[1].out IN
            /\ last.exc = NoExc
            /\ out \notin DOMAIN JsonTexts =>
                  last.ret = None /\ diag = << <<"not json: ", out>> >>
            /\ out \in DOMAIN JsonTexts =>
                  last.ret = Some(JsonTexts[out]) /\ diag = <<>>
            /\ \A cmd \in Cmds :
                  q(executor, recorder, file, writable, player, cmd, FALSE, TRUE) # {})
    /\ [][last'.op \in {"json", "text"} =>
            /\ executor' = executor /\ player' = player
            /\ recorder' = recorder /\ file' = file]_vars

C20_Witness ==
    /\ last.op = "json" /\ last.exc = NoExc /\ last.ret = None
    /\ executor.run # None /\ executor.run[1].rc = 0
    /\ executor.run[1].out = "out"
    /\ diag = << <<"not json: ", "out">> >>

====
